---- MODULE Spec2Model ----
(***************************************************************************)
(* Model of the brass revision ("version") file manager of Xapian:         *)
(* BrassVersion::open_most_recent, read, write and create                  *)
(* (xapian-core/backends/brass/brass_version.cc).                          *)
(*                                                                         *)
(* The file system is a map from path names (sequences of characters) to   *)
(* files (sequences of bytes, with a flag telling whether the contents     *)
(* have reached stable storage).  One writer object runs create / write    *)
(* step by step (open temp, write buffer, sync, close, rename, commit), so *)
(* that every intermediate state of the directory is a state of the model; *)
(* one reader object runs open_most_recent (scan, then read) interleaved   *)
(* with the writer.                                                        *)
(***************************************************************************)
EXTENDS Integers, Sequences, FiniteSets, TLC

(***************************************************************************)
(* Bounds of the model.                                                    *)
(***************************************************************************)
\* Number of API calls (create, write, staged-root mutation) the writer makes.
MaxOps == 3
\* write is called with new_rev in 0..MaxRev.
MaxRev == 2
\* uuid_generate draws from NUuids distinct values.
NUuids == 2
\* Number of tables (Brass::MAX_), scaled down.
MAX_ == 3
\* How many bytes a short write(2) transfers before the rest follows.
ShortWrite == 20
\* Number of API calls the writer makes while a reader runs beside it.
MaxOpsRW == 2

(***************************************************************************)
(* Program constants.                                                      *)
(***************************************************************************)
BRASS_VERSION_MAGIC_LEN == 14
\* "\x0f\x0dXapian Brass"
BRASS_VERSION_MAGIC ==
    <<15, 13, 88, 97, 112, 105, 97, 110, 32, 66, 114, 97, 115, 115>>

\* Mutant: months of 30 days.
DATE_TO_VERSION_30days(Y, M, D) == ((((Y - 2010) * 12 + (M - 1)) * 30) + D - 1)
DATE_TO_VERSION(Y, M, D) == ((((Y - 2010) * 12 + (M - 1)) * 31) + D - 1)
\* Mutant: the year kept to two digits.
VERSION_TO_YEAR_2digit(V) == (((V \div 31) \div 12) + 2010) % 100

VERSION_TO_YEAR(V) == ((V \div 31) \div 12) + 2010
VERSION_TO_MONTH(V) == ((V \div 31) % 12) + 1
VERSION_TO_DAY(V) == (V % 31) + 1
BRASS_FORMAT_VERSION == DATE_TO_VERSION(2010, 2, 23)

\* Width of brass_block_t, an unsigned integer type (32 bits in the program;
\* the model's integers stop at 2^31 - 1).  brass_block_t(-1) is "no root".
BlockBits == 16
NO_ROOT == 2^BlockBits - 1

\* read() reads at most sizeof(buf) bytes and needs at least 32.
ReadBufSize == 256
HeaderLen == 32

Tables == 0 .. (MAX_ - 1)
\* Values the caller stages as roots.
RootVals == {NO_ROOT, 42}
RootArrays == [Tables -> RootVals]
AllNoRoot == [t \in Tables |-> NO_ROOT]

\* A uuid_t: 16 bytes.
UuidOf(k) == [i \in 1..16 |-> k]
UuidVals == {UuidOf(k) : k \in 1..NUuids}

(***************************************************************************)
(* Sequence helpers.                                                       *)
(***************************************************************************)
Take(q, n) == SubSeq(q, 1, n)
Drop(q, n) == SubSeq(q, n + 1, Len(q))
Min(a, b) == IF a < b THEN a ELSE b

(***************************************************************************)
(* pack.h: variable length unsigned integers, 7 bits per byte, least       *)
(* significant group first, high bit set on every byte but the last.       *)
(***************************************************************************)
RECURSIVE pack_uint(_)
pack_uint(value) ==
    IF value >= 128
    THEN <<(value % 128) + 128>> \o pack_uint(value \div 128)
    ELSE <<value>>

\* Number of bytes of the encoded integer at the front of q; 0 when the data
\* runs out before a byte below 128 is seen.
RECURSIVE VarintLen(_)
VarintLen(q) ==
    IF q = <<>> THEN 0
    ELSE IF q[1] < 128 THEN 1
    ELSE LET n == VarintLen(Tail(q)) IN IF n = 0 THEN 0 ELSE n + 1

RECURSIVE VarintValue(_)
VarintValue(q) ==
    IF Len(q) = 1 THEN q[1]
    ELSE (q[1] % 128) + 128 * VarintValue(Tail(q))

\* unpack_uint(&p, end, &result): [ok, value, rest].
unpack_uint(q) ==
    LET n == VarintLen(q) IN
    IF n = 0 THEN [ok |-> FALSE, value |-> 0, rest |-> <<>>]
    ELSE IF (n - 1) * 7 >= BlockBits
    THEN [ok |-> FALSE, value |-> 0, rest |-> Drop(q, n)]
    ELSE LET v == VarintValue(Take(q, n)) IN
         IF v >= 2^BlockBits
         THEN [ok |-> FALSE, value |-> 0, rest |-> Drop(q, n)]
         ELSE [ok |-> TRUE, value |-> v, rest |-> Drop(q, n)]

(***************************************************************************)
(* File names.                                                             *)
(***************************************************************************)
HexDigits ==
    <<"0", "1", "2", "3", "4", "5", "6", "7",
      "8", "9", "a", "b", "c", "d", "e", "f">>

\* Mutant: the revision formatted with "%08X".
sprintf08x_upper(n) ==
    [i \in 1..8 |->
        <<"0", "1", "2", "3", "4", "5", "6", "7",
          "8", "9", "A", "B", "C", "D", "E", "F">>[((n \div (16^(8 - i))) % 16) + 1]]

\* sprintf(buf, "%08x", new_rev) for a 32 bit new_rev.
sprintf08x(n) == [i \in 1..8 |-> HexDigits[((n \div (16^(8 - i))) % 16) + 1]]

C_islcxdigit(c) == \E k \in 1..16 : HexDigits[k] = c

\* The character code memcmp compares.
CharCode(c) ==
    IF C_islcxdigit(c)
    THEN LET k == CHOOSE k \in 1..16 : HexDigits[k] = c
         IN IF k <= 10 THEN 47 + k ELSE 86 + k
    ELSE 0

\* Mutant: the comparison of the scan the wrong way round.
RECURSIVE memcmp_less_swapped(_, _)
memcmp_less_swapped(a, b) ==
    IF a = <<>> \/ b = <<>> THEN FALSE
    ELSE IF CharCode(a[1]) # CharCode(b[1]) THEN CharCode(a[1]) > CharCode(b[1])
    ELSE memcmp_less_swapped(Tail(a), Tail(b))

\* memcmp(a, b, 8) < 0
RECURSIVE memcmp_less(_, _)
memcmp_less(a, b) ==
    IF a = <<>> \/ b = <<>> THEN FALSE
    ELSE IF CharCode(a[1]) # CharCode(b[1]) THEN CharCode(a[1]) < CharCode(b[1])
    ELSE memcmp_less(Tail(a), Tail(b))

\* strtoul(newest.c_str(), NULL, 16) on a string of hex digits.
RECURSIVE strtoul16(_)
strtoul16(q) ==
    IF q = <<>> THEN 0
    ELSE LET k == CHOOSE k \in 1..16 : HexDigits[k] = q[Len(q)]
         IN (k - 1) + 16 * strtoul16(Take(q, Len(q) - 1))

\* The database directory of the model.
db_dir == <<"d", "b">>

\* Mutant: the staging file under a name the scanner accepts.
TmpFileName_canonical(dir) == dir \o <<"/", "v">> \o sprintf08x(1)

\* write(): string tmpfile = db_dir; tmpfile += "v.tmp";
TmpFileName(dir) == dir \o <<"v", ".", "t", "m", "p">>
\* write(): string filename = db_dir; filename += "/v"; filename.append(buf, 8);
RevFileName(dir, n) == dir \o <<"/", "v">> \o sprintf08x(n)

(***************************************************************************)
(* The codec: the buffer write() builds, and read()'s decoding of a file.  *)
(***************************************************************************)
\* Mutant: trailing tables without a root are not trimmed.
TableLast_notrim(nr, table_last) == table_last

\* write(): while (table_last > 0 && new_root[table_last - 1] == NO_ROOT) --table_last;
RECURSIVE TableLast(_, _)
TableLast(nr, table_last) ==
    IF table_last > 0 /\ nr[table_last - 1] = NO_ROOT
    THEN TableLast(nr, table_last - 1)
    ELSE table_last

\* Mutant: the pack loop leaving out every table without a root.
RECURSIVE PackRoots_skip(_, _, _)
PackRoots_skip(nr, table_no, table_last) ==
    IF table_no < table_last
    THEN (IF nr[table_no] = NO_ROOT THEN <<>> ELSE pack_uint(nr[table_no]))
             \o PackRoots_skip(nr, table_no + 1, table_last)
    ELSE <<>>

\* write(): for (table_no = 0; table_no < table_last; ++table_no) pack_uint(s, new_root[table_no]);
RECURSIVE PackRoots(_, _, _)
PackRoots(nr, table_no, table_last) ==
    IF table_no < table_last
    THEN pack_uint(nr[table_no]) \o PackRoots(nr, table_no + 1, table_last)
    ELSE <<>>

\* The string s that write() builds from the uuid and the staged roots.
Encode(u, nr) ==
    BRASS_VERSION_MAGIC
        \o <<(BRASS_FORMAT_VERSION \div 256) % 256, BRASS_FORMAT_VERSION % 256>>
        \o u
        \o PackRoots(nr, 0, TableLast(nr, MAX_))

\* brass_io_read(fd, buf, sizeof(buf), 32): up to 256 bytes, at least 32.
brass_io_read(data) ==
    IF Len(data) < HeaderLen
    THEN [ok |-> FALSE, buf |-> <<>>]
    ELSE [ok |-> TRUE, buf |-> Take(data, Min(Len(data), ReadBufSize))]

\* Mutant: a table whose entry is absent taken for corruption.
RECURSIVE ReadRoots_strict(_, _, _)
ReadRoots_strict(table_no, p, rt) ==
    IF table_no >= MAX_ THEN [ok |-> TRUE, root |-> rt, p |-> p]
    ELSE IF p # <<>>
    THEN LET u == unpack_uint(p) IN
         IF ~u.ok THEN [ok |-> FALSE, root |-> rt, p |-> u.rest]
         ELSE ReadRoots_strict(table_no + 1, u.rest, [rt EXCEPT ![table_no] = u.value])
    ELSE [ok |-> FALSE, root |-> rt, p |-> p]

\* read(): the loop over the tables.  [ok, root, p] where p is what is left
\* between the read pointer and end.
RECURSIVE ReadRoots(_, _, _)
ReadRoots(table_no, p, rt) ==
    IF table_no >= MAX_ THEN [ok |-> TRUE, root |-> rt, p |-> p]
    ELSE IF p # <<>>
    THEN LET u == unpack_uint(p) IN
         IF ~u.ok THEN [ok |-> FALSE, root |-> rt, p |-> u.rest]
         ELSE ReadRoots(table_no + 1, u.rest, [rt EXCEPT ![table_no] = u.value])
    ELSE ReadRoots(table_no + 1, p, [rt EXCEPT ![table_no] = NO_ROOT])

\* sprintf("%0<width>d", n) for n >= 0.
RECURSIVE sprintf0d(_, _)
sprintf0d(n, width) ==
    IF n < 10 /\ width <= 1 THEN <<HexDigits[n + 1]>>
    ELSE sprintf0d(n \div 10, width - 1) \o <<HexDigits[(n % 10) + 1]>>

\* read(): sprintf(datebuf, "%04d%02d%02d", year, month, day) of a version.
sprintf_date(V) ==
    sprintf0d(VERSION_TO_YEAR(V), 4)
        \o sprintf0d(VERSION_TO_MONTH(V), 2)
        \o sprintf0d(VERSION_TO_DAY(V), 2)

\* Mutant: bytes left after the last table not looked at.
read_nojunk(obj, data) ==
    LET io == brass_io_read(data) IN
    IF ~io.ok THEN [err |-> "DatabaseCorruptError", obj |-> obj, msg |-> <<>>]
    ELSE IF Take(io.buf, BRASS_VERSION_MAGIC_LEN) # BRASS_VERSION_MAGIC
    THEN [err |-> "DatabaseCorruptError", obj |-> obj, msg |-> <<>>]
    ELSE IF io.buf[15] * 256 + io.buf[16] # BRASS_FORMAT_VERSION
    THEN [err |-> "DatabaseVersionError", obj |-> obj,
          msg |-> <<sprintf_date(io.buf[15] * 256 + io.buf[16]),
                    sprintf_date(BRASS_FORMAT_VERSION)>>]
    ELSE LET o1 == [obj EXCEPT !.uuid = SubSeq(io.buf, 17, 32)]
             rr == ReadRoots(0, Drop(io.buf, HeaderLen), o1.root)
             o2 == [o1 EXCEPT !.root = rr.root]
         IN IF ~rr.ok THEN [err |-> "DatabaseCorruptError", obj |-> o2, msg |-> <<>>]
            ELSE [err |-> "none", obj |-> o2, msg |-> <<>>]

\* Mutant: a read that comes up short returning normally.
read_shortok(obj, data) ==
    LET io == brass_io_read(data) IN
    IF ~io.ok THEN [err |-> "none", obj |-> obj, msg |-> <<>>]
    ELSE IF Take(io.buf, BRASS_VERSION_MAGIC_LEN) # BRASS_VERSION_MAGIC
    THEN [err |-> "DatabaseCorruptError", obj |-> obj, msg |-> <<>>]
    ELSE IF io.buf[15] * 256 + io.buf[16] # BRASS_FORMAT_VERSION
    THEN [err |-> "DatabaseVersionError", obj |-> obj,
          msg |-> <<sprintf_date(io.buf[15] * 256 + io.buf[16]),
                    sprintf_date(BRASS_FORMAT_VERSION)>>]
    ELSE LET o1 == [obj EXCEPT !.uuid = SubSeq(io.buf, 17, 32)]
             rr == ReadRoots(0, Drop(io.buf, HeaderLen), o1.root)
             o2 == [o1 EXCEPT !.root = rr.root]
         IN IF ~rr.ok THEN [err |-> "DatabaseCorruptError", obj |-> o2, msg |-> <<>>]
            ELSE IF rr.p # <<>>
            THEN [err |-> "DatabaseCorruptError", obj |-> o2, msg |-> <<>>]
            ELSE [err |-> "none", obj |-> o2, msg |-> <<>>]

\* Mutant: the version checked before the magic, the uuid copied first.
read_versionfirst(obj, data) ==
    LET io == brass_io_read(data) IN
    IF ~io.ok THEN [err |-> "DatabaseCorruptError", obj |-> obj, msg |-> <<>>]
    ELSE LET o1 == [obj EXCEPT !.uuid = SubSeq(io.buf, 17, 32)] IN
    IF io.buf[15] * 256 + io.buf[16] # BRASS_FORMAT_VERSION
    THEN [err |-> "DatabaseVersionError", obj |-> o1,
          msg |-> <<sprintf_date(io.buf[15] * 256 + io.buf[16]),
                    sprintf_date(BRASS_FORMAT_VERSION)>>]
    ELSE IF Take(io.buf, BRASS_VERSION_MAGIC_LEN) # BRASS_VERSION_MAGIC
    THEN [err |-> "DatabaseCorruptError", obj |-> o1, msg |-> <<>>]
    ELSE LET rr == ReadRoots(0, Drop(io.buf, HeaderLen), o1.root)
             o2 == [o1 EXCEPT !.root = rr.root]
         IN IF ~rr.ok THEN [err |-> "DatabaseCorruptError", obj |-> o2, msg |-> <<>>]
            ELSE IF rr.p # <<>>
            THEN [err |-> "DatabaseCorruptError", obj |-> o2, msg |-> <<>>]
            ELSE [err |-> "none", obj |-> o2, msg |-> <<>>]

\* BrassVersion::read on a file that was opened and holds data: the error
\* thrown ("none" for a normal return), the dates of a version error's
\* message (the file's, the expected one) and the object as read leaves it.
read(obj, data) ==
    LET io == brass_io_read(data) IN
    IF ~io.ok THEN [err |-> "DatabaseCorruptError", obj |-> obj, msg |-> <<>>]
    ELSE IF Take(io.buf, BRASS_VERSION_MAGIC_LEN) # BRASS_VERSION_MAGIC
    THEN [err |-> "DatabaseCorruptError", obj |-> obj, msg |-> <<>>]
    ELSE IF io.buf[15] * 256 + io.buf[16] # BRASS_FORMAT_VERSION
    THEN [err |-> "DatabaseVersionError", obj |-> obj,
          msg |-> <<sprintf_date(io.buf[15] * 256 + io.buf[16]),
                    sprintf_date(BRASS_FORMAT_VERSION)>>]
    ELSE LET o1 == [obj EXCEPT !.uuid = SubSeq(io.buf, 17, 32)]
             rr == ReadRoots(0, Drop(io.buf, HeaderLen), o1.root)
             o2 == [o1 EXCEPT !.root = rr.root]
         IN IF ~rr.ok THEN [err |-> "DatabaseCorruptError", obj |-> o2, msg |-> <<>>]
            ELSE IF rr.p # <<>>
            THEN [err |-> "DatabaseCorruptError", obj |-> o2, msg |-> <<>>]
            ELSE [err |-> "none", obj |-> o2, msg |-> <<>>]

(***************************************************************************)
(* The directory scan of open_most_recent.                                 *)
(***************************************************************************)
\* The names readdir returns for dir in file system f.
Listing(f, dir) ==
    {Drop(path, Len(dir) + 1) : path \in
        {q \in DOMAIN f : /\ Len(q) > Len(dir) + 1
                          /\ Take(q, Len(dir) + 1) = dir \o <<"/">>
                          /\ \A i \in (Len(dir) + 2)..Len(q) : q[i] # "/"}}

\* Mutant: the end of the name not checked after the 8 digits.
IsRevName_nolen(name) ==
    /\ name # <<>>
    /\ name[1] = "v"
    /\ Len(name) >= 9
    /\ \A i \in 2..9 : C_islcxdigit(name[i])

\* Lines 91-98: name[0] == 'v', then exactly 8 lower case hex digits.
IsRevName(name) ==
    /\ name # <<>>
    /\ name[1] = "v"
    /\ Len(name) = 9
    /\ \A i \in 2..9 : C_islcxdigit(name[i])

\* The while loop over the entries, in the order readdir returns them.
RECURSIVE ScanLoop(_, _)
ScanLoop(entries, newest) ==
    IF entries = <<>> THEN newest
    ELSE LET name == Head(entries) IN
         IF ~IsRevName(name) THEN ScanLoop(Tail(entries), newest)
         ELSE IF newest = <<>> \/ memcmp_less(newest, Drop(name, 1))
         THEN ScanLoop(Tail(entries), Drop(name, 1))
         ELSE ScanLoop(Tail(entries), newest)

\* Every order in which readdir may return the entries.
Orderings(S) ==
    {q \in [1..Cardinality(S) -> S] : \A a \in S : \E i \in DOMAIN q : q[i] = a}

\* Mutant: the empty database case leaving rev as it was.
LoadNewest_norev(obj, f, dir, newest) ==
    IF newest = <<>>
    THEN [err |-> "none", obj |-> [obj EXCEPT !.root = AllNoRoot],
          msg |-> <<>>]
    ELSE LET o1 == [obj EXCEPT !.rev = strtoul16(newest)]
             filename == dir \o <<"/", "v">> \o newest
         IN IF filename \notin DOMAIN f
            THEN [err |-> "DatabaseOpeningError", obj |-> o1, msg |-> <<>>]
            ELSE read(o1, f[filename].data)

\* open_most_recent once the scan has ended with newest: lines 104-119.
\* The file is opened by read(); a missing file is an opening error.
LoadNewest(obj, f, dir, newest) ==
    IF newest = <<>>
    THEN [err |-> "none", obj |-> [obj EXCEPT !.rev = 0, !.root = AllNoRoot],
          msg |-> <<>>]
    ELSE LET o1 == [obj EXCEPT !.rev = strtoul16(newest)]
             filename == dir \o <<"/", "v">> \o newest
         IN IF filename \notin DOMAIN f
            THEN [err |-> "DatabaseOpeningError", obj |-> o1, msg |-> <<>>]
            ELSE read(o1, f[filename].data)

\* open_most_recent on file system f, readdir returning the entries in order.
open_most_recent(obj, f, dir, order) ==
    LoadNewest(obj, f, dir, ScanLoop(order, <<>>))

(***************************************************************************)
(* State.                                                                  *)
(***************************************************************************)
VARIABLES
    fs,         \* the file system: path -> [data, synced]
    rev,        \* writer object: BrassVersion::rev
    root,       \* writer object: committed roots
    new_root,   \* writer object: staged roots
    uuid,       \* writer object: uuid
    pc,         \* where the writer is inside write()
    new_rev,    \* write()'s argument while a write is in flight
    s,          \* write()'s encoded buffer
    fdpos,      \* bytes of s that brass_io_write has written so far
    call,       \* the last API call the writer made
    err,        \* how that call ended: "running", "ok" or the error thrown
    nops,       \* number of API calls made by the writer
    used,       \* the uuids uuid_generate has returned
    wfd,        \* number of descriptors write() holds open
    published,  \* history: every [rev, uuid, root] renamed to a canonical name
    run,        \* history: "ok" while the calls so far are one create followed
                \* by writes with strictly increasing revisions, all successful
    rd,         \* reader object: [rev, root, new_root, uuid]
    rpc,        \* where the reader is inside open_most_recent()
    newest,     \* open_most_recent()'s local: suffix of the newest name seen
    rerr,       \* how the reader's call ended
    rmsg,       \* the dates in the message of a version error
    rfd,        \* number of descriptors and directory handles the reader holds
    rfile,      \* contents of the file the reader's descriptor is open on
    rfault,     \* history: the system call of the reader that was made to fail
    rd0,        \* history: the reader's object when open_most_recent was called
    date,       \* a date [Y, M, D] given to DATE_TO_VERSION
    version,    \* the version computed from it, -1 before
    decoded,    \* the date decoded from the version, <<>> before
    opt,        \* omega: the option map given to set_weighting_scheme
    force_boolean, \* omega: its force_boolean argument
    enq,        \* omega: the schemes set on the Enquire object, in order
    thrown,     \* omega: what set_weighting_scheme threw, <<>> if nothing
    wpc         \* omega: "call" before set_weighting_scheme runs, "done" after

wvars == <<rev, root, new_root, uuid, pc, new_rev, s, fdpos, call, err, nops, used, wfd>>
rvars == <<rd, rpc, newest, rerr, rmsg, rfd, rfile, rfault, rd0>>
dvars == <<date, version, decoded>>
ovars == <<opt, force_boolean, enq, thrown, wpc>>
vars == <<fs, published, run, wvars, rvars, dvars, ovars>>

\* What the members hold before anything assigns them.
UninitRoots == {AllNoRoot, [t \in Tables |-> 42]}
UninitUuids == {UuidOf(0), UuidOf(1)}
\* BrassVersion objects as the constructor leaves them: rev(0), the arrays
\* and the uuid unassigned.
FreshObjs ==
    [rev : {0}, root : UninitRoots, new_root : UninitRoots, uuid : UninitUuids]

NoCall == [op |-> "none", n |-> 0]

\* No date is being converted.
NoDate ==
    /\ date = [Y |-> 2010, M |-> 1, D |-> 1]
    /\ version = -1
    /\ decoded = <<>>

\* set_weighting_scheme is not being called.
NoOmega ==
    /\ opt = <<>>
    /\ force_boolean = FALSE
    /\ enq = <<>>
    /\ thrown = <<>>
    /\ wpc = "idle"

\* The writer's object newly constructed, the directory empty.
InitWriter ==
    /\ fs = <<>>
    /\ published = {}
    /\ run = "fresh"
    /\ \E o \in FreshObjs :
          /\ rev = o.rev
          /\ root = o.root
          /\ new_root = o.new_root
          /\ uuid = o.uuid
    /\ pc = "idle"
    /\ new_rev = 0
    /\ s = <<>>
    /\ fdpos = 0
    /\ call = NoCall
    /\ err = "none"
    /\ nops = 0
    /\ used = {}
    /\ wfd = 0
    /\ NoDate
    /\ NoOmega

\* No call of the reader made yet.
ReaderIdle ==
    /\ rpc = "idle"
    /\ newest = <<>>
    /\ rerr = "none"
    /\ rmsg = <<>>
    /\ rfd = 0
    /\ rfile = <<>>
    /\ rfault = "none"
    /\ rd0 = rd

\* The reader's object newly constructed.
InitReader ==
    /\ rd \in {o \in FreshObjs : o.new_root = AllNoRoot}
    /\ ReaderIdle

\* The writer alone: the reader's object plays no part.
Init ==
    /\ InitWriter
    /\ rd = [rev |-> 0, root |-> AllNoRoot, new_root |-> AllNoRoot, uuid |-> UuidOf(0)]
    /\ ReaderIdle

InitRW ==
    /\ InitWriter
    /\ InitReader

(***************************************************************************)
(* File system primitives.                                                 *)
(***************************************************************************)
NewFile == [data |-> <<>>, synced |-> FALSE]
\* open(path, O_CREAT|O_TRUNC|O_WRONLY)
fs_creat(f, path) == (path :> NewFile) @@ f
\* the file's contents after a write(2) that leaves it holding data
fs_write(f, path, data) == (path :> [data |-> data, synced |-> FALSE]) @@ f
\* fsync/fdatasync
fs_sync(f, path) == (path :> [f[path] EXCEPT !.synced = TRUE]) @@ f
\* unlink(path)
fs_unlink(f, path) == [q \in (DOMAIN f) \ {path} |-> f[q]]
\* rename(from, to): atomically replaces to
fs_rename(f, from, to) == (to :> f[from]) @@ fs_unlink(f, from)

(***************************************************************************)
(* The writer: create and write, one step per system call.                 *)
(***************************************************************************)
\* A call has returned or thrown: back to the caller.
Return(e) ==
    /\ pc' = "idle"
    /\ err' = e
    /\ new_rev' = 0
    /\ s' = <<>>
    /\ fdpos' = 0
    /\ run' = IF e = "ok" /\ run = "running" THEN "ok" ELSE "broken"

\* Mutant: the revision check off by one.
WriteOpen_offbyone(n, u, nr, conforming) ==
    IF n < rev - 1
    THEN /\ Return("DatabaseError")
         /\ UNCHANGED <<fs, wfd>>
    ELSE \/ /\ fs' = fs_creat(fs, TmpFileName(db_dir))
            /\ wfd' = wfd + 1
            /\ pc' = "opened"
            /\ err' = "running"
            /\ new_rev' = n
            /\ s' = Encode(u, nr)
            /\ fdpos' = 0
            /\ run' = IF conforming THEN "running" ELSE "broken"
         \/ /\ Return("DatabaseOpeningError")
            /\ UNCHANGED <<fs, wfd>>

\* Mutant: the revision check made after the staging file was opened.
WriteOpen_late(n, u, nr, conforming) ==
    \/ /\ fs' = fs_creat(fs, TmpFileName(db_dir))
       /\ IF n < rev
          THEN Return("DatabaseError") /\ UNCHANGED wfd
          ELSE /\ wfd' = wfd + 1
               /\ pc' = "opened"
               /\ err' = "running"
               /\ new_rev' = n
               /\ s' = Encode(u, nr)
               /\ fdpos' = 0
               /\ run' = IF conforming THEN "running" ELSE "broken"
    \/ /\ Return("DatabaseOpeningError")
       /\ UNCHANGED <<fs, wfd>>

\* Mutant: no revision check.
WriteOpen_nocheck(n, u, nr, conforming) ==
    \/ /\ fs' = fs_creat(fs, TmpFileName(db_dir))
       /\ wfd' = wfd + 1
       /\ pc' = "opened"
       /\ err' = "running"
       /\ new_rev' = n
       /\ s' = Encode(u, nr)
       /\ fdpos' = 0
       /\ run' = IF conforming THEN "running" ELSE "broken"
    \/ /\ Return("DatabaseOpeningError")
       /\ UNCHANGED <<fs, wfd>>

\* write() lines 189-221, called with revision n on an object whose uuid is u
\* and whose staged roots are nr: the revision check, the encoding and the
\* open of the temporary file.  conforming tells the history variable run
\* whether this call continues a create-then-increasing-writes history.
WriteOpen(n, u, nr, conforming) ==
    IF n < rev
    THEN /\ Return("DatabaseError")
         /\ UNCHANGED <<fs, wfd>>
    ELSE \/ /\ fs' = fs_creat(fs, TmpFileName(db_dir))
            /\ wfd' = wfd + 1
            /\ pc' = "opened"
            /\ err' = "running"
            /\ new_rev' = n
            /\ s' = Encode(u, nr)
            /\ fdpos' = 0
            /\ run' = IF conforming THEN "running" ELSE "broken"
         \/ /\ Return("DatabaseOpeningError")
            /\ UNCHANGED <<fs, wfd>>

\* BrassVersion::write(db_dir, n), up to the open.
write(n) ==
    /\ pc = "idle"
    /\ nops < MaxOps
    /\ nops' = nops + 1
    /\ call' = [op |-> "write", n |-> n]
    /\ WriteOpen(n, uuid, new_root, run = "ok" /\ n > rev)
    /\ UNCHANGED <<rev, root, new_root, uuid, used, published, rvars, dvars, ovars>>

\* BrassVersion::create(db_dir): uuid_generate, reset the staged roots,
\* then write(db_dir, rev).
create ==
    /\ pc = "idle"
    /\ nops < MaxOps
    /\ nops' = nops + 1
    /\ \E u \in UuidVals \ used :
          /\ uuid' = u
          /\ used' = used \cup {u}
          /\ new_root' = AllNoRoot
          /\ call' = [op |-> "create", n |-> rev]
          /\ WriteOpen(rev, u, AllNoRoot, run = "fresh")
    /\ UNCHANGED <<rev, root, published, rvars, dvars, ovars>>

\* The caller stages a root (the mutator of the staged array).
set_root(t, v) ==
    /\ pc = "idle"
    /\ nops < MaxOps
    /\ nops' = nops + 1
    /\ new_root' = [new_root EXCEPT ![t] = v]
    /\ call' = [op |-> "set_root", n |-> t]
    /\ err' = "ok"
    /\ UNCHANGED <<fs, rev, root, uuid, pc, new_rev, s, fdpos, used, wfd, published,
                   run, rvars, dvars, ovars>>

\* Mutant: a short write(2) taken for a complete one.
brass_io_write_short ==
    /\ pc = "opened"
    /\ \/ /\ ShortWrite < Len(s)
          /\ fs' = fs_write(fs, TmpFileName(db_dir), Take(s, ShortWrite))
          /\ fdpos' = ShortWrite
          /\ pc' = "written"
          /\ UNCHANGED <<err, new_rev, s, run, wfd>>
       \/ /\ fs' = fs_write(fs, TmpFileName(db_dir), s)
          /\ fdpos' = Len(s)
          /\ pc' = "written"
          /\ UNCHANGED <<err, new_rev, s, run, wfd>>
       \/ /\ Return("DatabaseError")
          /\ wfd' = wfd - 1
          /\ UNCHANGED fs
    /\ UNCHANGED <<rev, root, new_root, uuid, call, nops, used, published, rvars, dvars, ovars>>

\* brass_io_write (lines 223-228): write(2) until the buffer is out; a short
\* write leaves a prefix in the file; an error closes the descriptor and
\* rethrows, leaving the file as it is.
brass_io_write ==
    /\ pc = "opened"
    /\ \/ /\ fdpos < ShortWrite
          /\ ShortWrite < Len(s)
          /\ fs' = fs_write(fs, TmpFileName(db_dir), Take(s, ShortWrite))
          /\ fdpos' = ShortWrite
          /\ UNCHANGED <<pc, err, new_rev, s, run, wfd>>
       \/ /\ fs' = fs_write(fs, TmpFileName(db_dir), s)
          /\ fdpos' = Len(s)
          /\ pc' = "written"
          /\ UNCHANGED <<err, new_rev, s, run, wfd>>
       \/ /\ Return("DatabaseError")
          /\ wfd' = wfd - 1
          /\ UNCHANGED fs
    /\ UNCHANGED <<rev, root, new_root, uuid, call, nops, used, published, rvars, dvars, ovars>>

\* Mutant: the sync reporting success without having made the data durable.
brass_io_sync_skip ==
    /\ pc = "written"
    /\ \/ /\ pc' = "synced"
          /\ UNCHANGED <<fs, err, new_rev, s, fdpos, run, wfd>>
       \/ /\ wfd' = wfd - 1
          /\ fs' = fs_unlink(fs, TmpFileName(db_dir))
          /\ Return("DatabaseOpeningError")
    /\ UNCHANGED <<rev, root, new_root, uuid, call, nops, used, published, rvars, dvars, ovars>>

\* brass_io_sync (lines 230-236).
brass_io_sync ==
    /\ pc = "written"
    /\ \/ /\ fs' = fs_sync(fs, TmpFileName(db_dir))
          /\ pc' = "synced"
          /\ UNCHANGED <<err, new_rev, s, fdpos, run, wfd>>
       \/ /\ wfd' = wfd - 1
          /\ fs' = fs_unlink(fs, TmpFileName(db_dir))
          /\ Return("DatabaseOpeningError")
    /\ UNCHANGED <<rev, root, new_root, uuid, call, nops, used, published, rvars, dvars, ovars>>

\* close(fd) (lines 238-243); the descriptor is released whether close
\* returns 0 or -1.
close_fd ==
    /\ pc = "synced"
    /\ wfd' = wfd - 1
    /\ \/ /\ pc' = "closed"
          /\ UNCHANGED <<fs, err, new_rev, s, fdpos, run>>
       \/ /\ fs' = fs_unlink(fs, TmpFileName(db_dir))
          /\ Return("DatabaseOpeningError")
    /\ UNCHANGED <<rev, root, new_root, uuid, call, nops, used, published, rvars, dvars, ovars>>

\* Mutant: the in-memory commit made before the rename is known to succeed.
rename_tmp_early ==
    /\ pc = "closed"
    /\ rev' = new_rev
    /\ root' = new_root
    /\ \/ /\ fs' = fs_rename(fs, TmpFileName(db_dir), RevFileName(db_dir, new_rev))
          /\ published' = published \cup
                {[rev |-> new_rev, uuid |-> uuid, root |-> new_root]}
          /\ pc' = "renamed"
          /\ UNCHANGED <<err, new_rev, s, fdpos, run>>
       \/ /\ fs' = fs_unlink(fs, TmpFileName(db_dir))
          /\ Return("DatabaseOpeningError")
          /\ UNCHANGED published
    /\ UNCHANGED <<new_root, uuid, call, nops, used, wfd, rvars, dvars, ovars>>

\* rename(tmpfile, filename) (lines 245-250).
rename_tmp ==
    /\ pc = "closed"
    /\ \/ /\ fs' = fs_rename(fs, TmpFileName(db_dir), RevFileName(db_dir, new_rev))
          /\ published' = published \cup
                {[rev |-> new_rev, uuid |-> uuid, root |-> new_root]}
          /\ pc' = "renamed"
          /\ UNCHANGED <<err, new_rev, s, fdpos, run>>
       \/ /\ fs' = fs_unlink(fs, TmpFileName(db_dir))
          /\ Return("DatabaseOpeningError")
          /\ UNCHANGED published
    /\ UNCHANGED <<rev, root, new_root, uuid, call, nops, used, wfd, rvars, dvars, ovars>>

\* The in-memory commit (lines 252-253) and the return.
commit ==
    /\ pc = "renamed"
    /\ rev' = new_rev
    /\ root' = new_root
    /\ Return("ok")
    /\ UNCHANGED <<fs, new_root, uuid, call, nops, used, wfd, published, rvars, dvars, ovars>>

(***************************************************************************)
(* The reader: open_most_recent, one step per system call that other       *)
(* processes can observe or that can fail: opendir, the readdir loop with  *)
(* closedir, the open of the chosen file, and read() on the descriptor.    *)
(***************************************************************************)
\* The reader's call has returned or thrown.
ReaderReturn(e) ==
    /\ rpc' = "done"
    /\ rerr' = e

\* Lines 72-75: opendir.
reader_opendir ==
    /\ rpc = "idle"
    /\ \/ /\ rfd' = rfd + 1
          /\ rpc' = "diropen"
          /\ rerr' = "running"
          /\ UNCHANGED rfault
       \/ /\ ReaderReturn("DatabaseOpeningError")
          /\ rfault' = "opendir"
          /\ UNCHANGED rfd
    /\ rd0' = rd
    /\ UNCHANGED <<fs, published, run, wvars, dvars, ovars, rd, newest, rmsg, rfile>>

\* Mutant: the directory handle not closed when readdir fails.
reader_scan_noclose ==
    /\ rpc = "diropen"
    /\ \/ /\ rfd' = rfd - 1
          /\ \E order \in Orderings(Listing(fs, db_dir)) :
                LET n == ScanLoop(order, <<>>) IN
                /\ newest' = n
                /\ IF n = <<>>
                   THEN /\ rd' = LoadNewest(rd, fs, db_dir, n).obj
                        /\ ReaderReturn("none")
                   ELSE /\ rpc' = "scanned"
                        /\ UNCHANGED <<rd, rerr>>
          /\ UNCHANGED rfault
       \/ /\ ReaderReturn("DatabaseError")
          /\ rfault' = "readdir"
          /\ UNCHANGED <<rd, newest, rfd>>
    /\ UNCHANGED <<fs, published, run, wvars, dvars, ovars, rmsg, rfile, rd0>>

\* Lines 77-111: the readdir loop.  At the end of the listing closedir, and
\* an empty database returns at once; a readdir that fails closes the
\* directory and throws.
reader_scan ==
    /\ rpc = "diropen"
    /\ rfd' = rfd - 1
    /\ \/ /\ \E order \in Orderings(Listing(fs, db_dir)) :
                LET n == ScanLoop(order, <<>>) IN
                /\ newest' = n
                /\ IF n = <<>>
                   THEN /\ rd' = LoadNewest(rd, fs, db_dir, n).obj
                        /\ ReaderReturn("none")
                   ELSE /\ rpc' = "scanned"
                        /\ UNCHANGED <<rd, rerr>>
          /\ UNCHANGED rfault
       \/ /\ ReaderReturn("DatabaseError")
          /\ rfault' = "readdir"
          /\ UNCHANGED <<rd, newest>>
    /\ UNCHANGED <<fs, published, run, wvars, dvars, ovars, rmsg, rfile, rd0>>

\* Lines 113-135: set rev from the name, build the file name and open it.
\* The descriptor stays on the file it was opened on.
reader_open ==
    /\ rpc = "scanned"
    /\ rd' = [rd EXCEPT !.rev = strtoul16(newest)]
    /\ LET filename == db_dir \o <<"/", "v">> \o newest IN
       \/ /\ filename \in DOMAIN fs
          /\ rfd' = rfd + 1
          /\ rfile' = fs[filename].data
          /\ rpc' = "fileopen"
          /\ UNCHANGED <<rerr, rfault>>
       \/ /\ ReaderReturn("DatabaseOpeningError")
          /\ rfault' = "open"
          /\ UNCHANGED <<rfd, rfile>>
    /\ UNCHANGED <<fs, published, run, wvars, dvars, ovars, newest, rmsg, rd0>>

\* Lines 137-182: read() on the open descriptor; fdcloser closes it on every
\* way out.
reader_read ==
    /\ rpc = "fileopen"
    /\ LET res == read(rd, rfile) IN
          /\ rd' = res.obj
          /\ rmsg' = res.msg
          /\ ReaderReturn(res.err)
    /\ rfd' = rfd - 1
    /\ UNCHANGED <<fs, published, run, wvars, dvars, ovars, newest, rfile, rfault, rd0>>

ReaderNext ==
    \/ reader_opendir
    \/ reader_scan
    \/ reader_open
    \/ reader_read

(***************************************************************************)
(* Specifications.                                                         *)
(***************************************************************************)
WriterNext ==
    \/ \E n \in 0..MaxRev : write(n)
    \/ create
    \/ \E t \in Tables, v \in RootVals : set_root(t, v)
    \/ brass_io_write
    \/ brass_io_sync
    \/ close_fd
    \/ rename_tmp
    \/ commit

Next == WriterNext

\* The writer alone.
Spec == Init /\ [][Next]_vars

NextRW ==
    \/ WriterNext /\ nops' <= MaxOpsRW
    \/ ReaderNext

\* The writer with a reader that runs open_most_recent once, at any time.
SpecRW == InitRW /\ [][NextRW]_vars

(***************************************************************************)
(* The codec on its own: any uuid and any staged roots are encoded as      *)
(* write() encodes them, and the bytes are decoded as read() decodes them  *)
(* into an object whose members hold anything.                             *)
(***************************************************************************)
\* Roots whose encodings take one, two and three bytes, and no root.
CodecRootVals == {0, 42, 128, 16384, NO_ROOT}

InitCodec ==
    /\ fs = <<>>
    /\ published = {}
    /\ run = "fresh"
    /\ rev = 0
    /\ root \in UninitRoots
    /\ new_root \in [Tables -> CodecRootVals]
    /\ uuid \in UuidVals
    /\ pc = "input"
    /\ new_rev = 0
    /\ s = <<>>
    /\ fdpos = 0
    /\ call = NoCall
    /\ err = "none"
    /\ nops = 0
    /\ used = {}
    /\ wfd = 0
    /\ rd \in FreshObjs
    /\ ReaderIdle
    /\ NoDate
    /\ NoOmega

\* write() lines 192-203: build the buffer.
codec_encode ==
    /\ pc = "input"
    /\ s' = Encode(uuid, new_root)
    /\ pc' = "encoded"
    /\ UNCHANGED <<fs, published, run, rev, root, new_root, uuid, new_rev, fdpos,
                   call, err, nops, used, wfd, rvars, dvars, ovars>>

\* read() lines 139-182 on a file holding the buffer.
codec_decode ==
    /\ pc = "encoded"
    /\ LET r == read(rd, s) IN
          /\ rd' = r.obj
          /\ rerr' = r.err
          /\ rmsg' = r.msg
    /\ pc' = "decoded"
    /\ UNCHANGED <<fs, published, run, rev, root, new_root, uuid, new_rev, s, fdpos,
                   call, err, nops, used, wfd, rpc, newest, rfd, rfile, rfault, rd0,
                   dvars, ovars>>

NextCodec ==
    \/ codec_encode
    \/ codec_decode

SpecCodec == InitCodec /\ [][NextCodec]_vars

(***************************************************************************)
(* open_most_recent on its own, over directories that hold revision files  *)
(* and other entries.                                                      *)
(***************************************************************************)
\* How many entries a sample directory holds at most.
MaxEntries == 3

\* Names a database directory may hold: revisions 1 and 10, and names the
\* scanner has to pass over.
SampleNames ==
    {<<"v">> \o sprintf08x(1),
     <<"v">> \o sprintf08x(10),
     <<"v", "X", "X", "X", "X", "X", "X", "X", "X">>,
     <<"v", "0", "0", "0", "0", "0", "0", "0", "A">>,
     <<"v", "1", "2", "3", "4", "5", "6", "7">>,
     <<"v", "1", "2", "3", "4", "5", "6", "7", "8", "9">>,
     <<"v", ".", "t", "m", "p">>,
     <<"x", "0", "0", "0", "0", "0", "0", "0", "2">>,
     <<"r", "e", "c", "o", "r", "d", ".", "D", "B">>,
     <<"v">>}

\* A revision file as write leaves it.
SampleFile == Encode(UuidOf(1), [t \in Tables |-> IF t = 0 THEN 42 ELSE NO_ROOT])

\* What the files of a sample directory hold: a revision file, one with a
\* byte after the entries of all tables, one of a foreign version.
SampleContents ==
    {SampleFile,
     Encode(UuidOf(1), [t \in Tables |-> 42]) \o <<0>>,
     BRASS_VERSION_MAGIC \o <<0, 0>> \o UuidOf(1)}

\* The directory holding the names of S, every file holding data.
SampleDir(S, data) ==
    [path \in {db_dir \o <<"/">> \o name : name \in S} |->
        [data |-> data, synced |-> TRUE]]

SampleDirs ==
    {SampleDir(S, data) :
        S \in {T \in SUBSET SampleNames : Cardinality(T) <= MaxEntries},
        data \in SampleContents}

\* Objects that open_most_recent is called on: new ones, and ones that have
\* held another database before.
OpenObjs ==
    [rev : {0, 2}, root : UninitRoots, new_root : {AllNoRoot}, uuid : UninitUuids]

InitOpen ==
    /\ fs \in SampleDirs
    /\ published = {}
    /\ run = "fresh"
    /\ rev = 0
    /\ root = AllNoRoot
    /\ new_root = AllNoRoot
    /\ uuid = UuidOf(0)
    /\ pc = "idle"
    /\ new_rev = 0
    /\ s = <<>>
    /\ fdpos = 0
    /\ call = NoCall
    /\ err = "none"
    /\ nops = 0
    /\ used = {}
    /\ wfd = 0
    /\ rd \in OpenObjs
    /\ ReaderIdle
    /\ NoDate
    /\ NoOmega

SpecOpen == InitOpen /\ [][ReaderNext]_vars

(***************************************************************************)
(* read() on its own, on files whose version field holds any 16 bit value. *)
(***************************************************************************)
\* The values of the two byte version field.
VersionValues == 0..(2^16 - 1)

\* A file with the magic, version V, a uuid and one root.
VersionFile(V) ==
    BRASS_VERSION_MAGIC \o <<(V \div 256) % 256, V % 256>> \o UuidOf(1) \o pack_uint(42)

\* read() has opened such a file.
InitRead ==
    /\ fs = <<>>
    /\ published = {}
    /\ run = "fresh"
    /\ rev = 0
    /\ root = AllNoRoot
    /\ new_root = AllNoRoot
    /\ uuid = UuidOf(0)
    /\ pc = "idle"
    /\ new_rev = 0
    /\ s = <<>>
    /\ fdpos = 0
    /\ call = NoCall
    /\ err = "none"
    /\ nops = 0
    /\ used = {}
    /\ wfd = 0
    /\ rd = [rev |-> 0, root |-> AllNoRoot, new_root |-> AllNoRoot, uuid |-> UuidOf(0)]
    /\ rpc = "fileopen"
    /\ newest = <<>>
    /\ rerr = "running"
    /\ rmsg = <<>>
    /\ rfd = 1
    /\ rfile \in {VersionFile(V) : V \in VersionValues}
    /\ rfault = "none"
    /\ rd0 = rd
    /\ NoDate
    /\ NoOmega

SpecRead == InitRead /\ [][reader_read]_vars

(***************************************************************************)
(* read() on its own, on well-formed, truncated and damaged files.         *)
(***************************************************************************)
\* The entries of a file that holds the roots vals[1], vals[2], ...
RECURSIVE EntriesOf(_)
EntriesOf(vals) ==
    IF vals = <<>> THEN <<>> ELSE pack_uint(Head(vals)) \o EntriesOf(Tail(vals))

\* The header write() emits for uuid 1.
SampleHeader ==
    BRASS_VERSION_MAGIC
        \o <<(BRASS_FORMAT_VERSION \div 256) % 256, BRASS_FORMAT_VERSION % 256>>
        \o UuidOf(1)

\* A header and exactly k root entries, for every k up to MAX_.
EntryFiles ==
    UNION {{SampleHeader \o EntriesOf(vals) : vals \in [1..k -> CodecRootVals]} :
              k \in 0..MAX_}

\* A header, an entry for every table, and bytes after them.
JunkFiles ==
    {SampleHeader \o EntriesOf(vals) \o junk :
        vals \in [1..MAX_ -> CodecRootVals], junk \in {<<0>>, <<255>>, <<42, 7>>}}

\* Files shorter than the header: prefixes of a revision file, and bytes
\* that are all 0 or all 255.
ShortFiles ==
    {Take(SampleHeader, n) : n \in 0..(HeaderLen - 1)}
        \cup {[i \in 1..n |-> b] : n \in 0..(HeaderLen - 1), b \in {0, 255}}

\* Files whose first 14 bytes are not the magic, with the expected version
\* and with other versions.
BadMagicFiles ==
    {[SampleHeader EXCEPT ![i] = 0, ![BRASS_VERSION_MAGIC_LEN + 1] = V \div 256,
                          ![BRASS_VERSION_MAGIC_LEN + 2] = V % 256] \o pack_uint(42) :
        i \in {1, BRASS_VERSION_MAGIC_LEN},
        V \in {BRASS_FORMAT_VERSION, 0, BRASS_FORMAT_VERSION + 1, 2^16 - 1}}

\* Files with the magic and a version that is not the expected one.
BadVersionFiles ==
    {VersionFile(V) : V \in {0, BRASS_FORMAT_VERSION - 1, BRASS_FORMAT_VERSION + 1}}

DecodeSamples ==
    EntryFiles \cup JunkFiles \cup ShortFiles \cup BadMagicFiles \cup BadVersionFiles

\* read() has opened one of the files, on an object whose members hold
\* anything.
InitDecode ==
    /\ fs = <<>>
    /\ published = {}
    /\ run = "fresh"
    /\ rev = 0
    /\ root = AllNoRoot
    /\ new_root = AllNoRoot
    /\ uuid = UuidOf(0)
    /\ pc = "idle"
    /\ new_rev = 0
    /\ s = <<>>
    /\ fdpos = 0
    /\ call = NoCall
    /\ err = "none"
    /\ nops = 0
    /\ used = {}
    /\ wfd = 0
    /\ rd \in {o \in FreshObjs : o.new_root = AllNoRoot}
    /\ rpc = "fileopen"
    /\ newest = <<>>
    /\ rerr = "running"
    /\ rmsg = <<>>
    /\ rfd = 1
    /\ rfile \in DecodeSamples
    /\ rfault = "none"
    /\ rd0 = rd
    /\ NoDate
    /\ NoOmega

SpecDecode == InitDecode /\ [][reader_read]_vars

(***************************************************************************)
(* One write at any revision number, with a reader beside it.              *)
(***************************************************************************)
\* Revisions 0..MaxName are tried one by one.
MaxName == 40

\* The greatest revision number the model's integers hold: 7fffffff.
GreatestRev == 2^30 + (2^30 - 1)

\* Revision numbers given to write: the small ones, those around each power
\* of 16, and the greatest the model's integers hold.
RevSamples ==
    (0..MaxName)
        \cup {16^k : k \in 1..7} \cup {16^k - 1 : k \in 1..7}
        \cup {10 * 16^k + 11 : k \in 1..6}
        \cup {GreatestRev}

InitName ==
    /\ fs = <<>>
    /\ published = {}
    /\ run = "fresh"
    /\ rev = 0
    /\ root = AllNoRoot
    /\ new_root = AllNoRoot
    /\ uuid = UuidOf(1)
    /\ pc = "idle"
    /\ new_rev = 0
    /\ s = <<>>
    /\ fdpos = 0
    /\ call = NoCall
    /\ err = "none"
    /\ nops = 0
    /\ used = {}
    /\ wfd = 0
    /\ rd = [rev |-> 0, root |-> AllNoRoot, new_root |-> AllNoRoot, uuid |-> UuidOf(0)]
    /\ ReaderIdle
    /\ NoDate
    /\ NoOmega

NextName ==
    \/ \E n \in RevSamples : write(n) /\ nops' <= 1
    \/ brass_io_write
    \/ brass_io_sync
    \/ close_fd
    \/ rename_tmp
    \/ commit
    \/ ReaderNext

SpecName == InitName /\ [][NextName]_vars

(***************************************************************************)
(* One object that opens an existing database and then writes to it.       *)
(***************************************************************************)
\* open_most_recent (lines 68-120) called on the writer's object, in one
\* step: no other process runs beside it.
writer_open ==
    /\ pc = "idle"
    /\ nops < MaxOps
    /\ nops' = nops + 1
    /\ call' = [op |-> "open_most_recent", n |-> 0]
    /\ run' = "broken"
    /\ \/ /\ err' = "DatabaseOpeningError"
          /\ UNCHANGED <<rev, root, new_root, uuid>>
       \/ /\ err' = "DatabaseError"
          /\ UNCHANGED <<rev, root, new_root, uuid>>
       \/ \E order \in Orderings(Listing(fs, db_dir)) :
             LET r == open_most_recent(
                          [rev |-> rev, root |-> root, new_root |-> new_root,
                           uuid |-> uuid], fs, db_dir, order)
             IN /\ rev' = r.obj.rev
                /\ root' = r.obj.root
                /\ new_root' = r.obj.new_root
                /\ uuid' = r.obj.uuid
                /\ err' = IF r.err = "none" THEN "ok" ELSE r.err
       \/ \E order \in Orderings(Listing(fs, db_dir)) :
             /\ ScanLoop(order, <<>>) # <<>>
             /\ rev' = strtoul16(ScanLoop(order, <<>>))
             /\ err' = "DatabaseOpeningError"
             /\ UNCHANGED <<root, new_root, uuid>>
    /\ UNCHANGED <<fs, pc, new_rev, s, fdpos, used, wfd, published, rvars, dvars, ovars>>

\* Directories the object finds: empty, or holding revision 1.
ReopenDirs ==
    {SampleDir(S, data) : S \in {{}, {<<"v">> \o sprintf08x(1)}}, data \in SampleContents}

InitReopen ==
    /\ fs \in ReopenDirs
    /\ published = {}
    /\ run = "fresh"
    /\ \E o \in FreshObjs :
          /\ rev = o.rev
          /\ root = o.root
          /\ new_root = o.new_root
          /\ uuid = o.uuid
    /\ pc = "idle"
    /\ new_rev = 0
    /\ s = <<>>
    /\ fdpos = 0
    /\ call = NoCall
    /\ err = "none"
    /\ nops = 0
    /\ used = {}
    /\ wfd = 0
    /\ rd = [rev |-> 0, root |-> AllNoRoot, new_root |-> AllNoRoot, uuid |-> UuidOf(0)]
    /\ ReaderIdle
    /\ NoDate
    /\ NoOmega

NextReopen ==
    \/ WriterNext /\ nops' <= MaxOpsRW
    \/ writer_open /\ nops' <= MaxOpsRW

SpecReopen == InitReopen /\ [][NextReopen]_vars

(***************************************************************************)
(* The version-as-date macros on their own: a date is encoded, stored in   *)
(* the two header bytes as write() stores it, and decoded.                 *)
(***************************************************************************)
\* The macros count years from 2010.
FirstYear == 2010
LastYear == 2187
Dates == [Y : FirstYear..LastYear, M : 1..12, D : 1..31]

\* Calendar order of two dates.
DateLess(a, b) ==
    \/ a.Y < b.Y
    \/ a.Y = b.Y /\ a.M < b.M
    \/ a.Y = b.Y /\ a.M = b.M /\ a.D < b.D

\* The date after d on the macros' grid of 12 months of 31 days.
NextDate(d) ==
    IF d.D < 31 THEN [d EXCEPT !.D = d.D + 1]
    ELSE IF d.M < 12 THEN [d EXCEPT !.M = d.M + 1, !.D = 1]
    ELSE [Y |-> d.Y + 1, M |-> 1, D |-> 1]

\* s += char(version >> 8 & 0xff); s += char(version & 0xff);
HeaderBytes(V) == <<(V \div 256) % 256, V % 256>>
\* version = (buf[len] << 8) | buf[len + 1]
HeaderVersion(b) == b[1] * 256 + b[2]

InitDate ==
    /\ date \in Dates
    /\ version = -1
    /\ decoded = <<>>
    /\ fs = <<>>
    /\ published = {}
    /\ run = "fresh"
    /\ rev = 0
    /\ root = AllNoRoot
    /\ new_root = AllNoRoot
    /\ uuid = UuidOf(0)
    /\ pc = "idle"
    /\ new_rev = 0
    /\ s = <<>>
    /\ fdpos = 0
    /\ call = NoCall
    /\ err = "none"
    /\ nops = 0
    /\ used = {}
    /\ wfd = 0
    /\ rd = [rev |-> 0, root |-> AllNoRoot, new_root |-> AllNoRoot, uuid |-> UuidOf(0)]
    /\ ReaderIdle
    /\ NoOmega

\* unsigned version = DATE_TO_VERSION(Y, M, D);
date_encode ==
    /\ version = -1
    /\ version' = DATE_TO_VERSION(date.Y, date.M, date.D)
    /\ UNCHANGED <<date, decoded, fs, published, run, wvars, rvars, ovars>>

\* VERSION_TO_YEAR(version), VERSION_TO_MONTH(version), VERSION_TO_DAY(version)
date_decode ==
    /\ version # -1
    /\ decoded = <<>>
    /\ decoded' = [Y |-> VERSION_TO_YEAR(version),
                   M |-> VERSION_TO_MONTH(version),
                   D |-> VERSION_TO_DAY(version)]
    /\ UNCHANGED <<date, version, fs, published, run, wvars, rvars, ovars>>

NextDateStep ==
    \/ date_encode
    \/ date_decode

SpecDate == InitDate /\ [][NextDateStep]_vars

(***************************************************************************)
(* omega: set_weighting_scheme.  A std::string is the sequence of its      *)
(* characters; a position in its c_str() is an index from 1, and the       *)
(* character at the end and beyond is NUL.                                 *)
(***************************************************************************)
NUL == "NUL"
CharAt(str, i) == IF i >= 1 /\ i <= Len(str) THEN str[i] ELSE NUL

\* The vertical tab has no escape here and is written VT.
VT == "VT"
C_isspace(c) == c \in {" ", "\t", "\n", VT, "\f", "\r"}
C_isdigit(c) == c \in {"0", "1", "2", "3", "4", "5", "6", "7", "8", "9"}

\* startswith(s, pfx)
startswith(str, pfx) == Len(str) >= Len(pfx) /\ Take(str, Len(pfx)) = pfx

RECURSIVE SkipSpace(_, _)
SkipSpace(str, i) == IF C_isspace(CharAt(str, i)) THEN SkipSpace(str, i + 1) ELSE i

RECURSIVE SkipDigits(_, _)
SkipDigits(str, i) == IF C_isdigit(CharAt(str, i)) THEN SkipDigits(str, i + 1) ELSE i

SkipSign(str, i) == IF CharAt(str, i) \in {"+", "-"} THEN i + 1 ELSE i

\* The largest decimal exponent of a finite double, and the model's limit on
\* the exponents it evaluates.
DBL_MAX_10_EXP == 308
ExpCap == 1000

\* The value of the digits str[i..j-1], stopped at ExpCap.
RECURSIVE DigitsValue(_, _, _, _)
DigitsValue(str, i, j, acc) ==
    IF i >= j \/ acc >= ExpCap THEN acc
    ELSE DigitsValue(str, i + 1, j, acc * 10 + (CharCode(str[i]) - CharCode("0")))

\* strtod(str + p - 1, &end) on the c_str() of str: white space, a sign,
\* then "inf", "nan" or decimal digits with an optional point and an
\* optional exponent.  end = p when nothing was converted; erange stands for
\* errno = ERANGE; the value is named by the text converted.
strtod(str, p) ==
    LET a == SkipSpace(str, p)
        b == SkipSign(str, a)
        c == SkipDigits(str, b)
        d == IF CharAt(str, c) = "." THEN SkipDigits(str, c + 1) ELSE c
        ndigits == (c - b) + (IF d > c THEN d - c - 1 ELSE 0)
        word == <<CharAt(str, b), CharAt(str, b + 1), CharAt(str, b + 2)>>
        f == IF CharAt(str, d) \in {"e", "E"} THEN SkipSign(str, d + 1) ELSE d
        g == IF f > d THEN SkipDigits(str, f) ELSE d
        end == IF g > f THEN g ELSE d
        nonzero == \E k \in b..(d - 1) : C_isdigit(str[k]) /\ str[k] # "0"
        big == /\ g > f
               /\ nonzero
               /\ DigitsValue(str, f, g, 0) > DBL_MAX_10_EXP + (d - b)
    IN  IF word \in {<<"i", "n", "f">>, <<"n", "a", "n">>}
        THEN [end |-> b + 3, erange |-> FALSE, val |-> SubSeq(str, a, b + 2)]
        ELSE IF ndigits = 0
        THEN [end |-> p, erange |-> FALSE, val |-> <<>>]
        ELSE [end |-> end, erange |-> big, val |-> SubSeq(str, a, end - 1)]

\* double_param(&p, &val): ok, the new p and the value stored.
double_param(str, p) ==
    LET r == strtod(str, p)
    IN  IF r.end = p \/ r.erange
        THEN [ok |-> FALSE, p |-> p, val |-> <<>>]
        ELSE [ok |-> TRUE, p |-> r.end, val |-> r.val]

\* The schemes handed to Enquire::set_weighting_scheme.
BoolWeight == [scheme |-> "bool", args |-> <<>>]
BM25Weight(args) == [scheme |-> "bm25", args |-> args]
TradWeight(k) == [scheme |-> "trad", args |-> <<k>>]
TfIdfWeight(normalizations) == [scheme |-> "tfidf", args |-> <<normalizations>>]

\* The normalization strings TfIdfWeight's constructor is known to accept;
\* any other string it may accept or reject with InvalidArgumentError.
TfIdfAccepts(n) ==
    /\ Len(n) = 3
    /\ n[1] \in {"N", "B", "S", "L"}
    /\ n[2] \in {"N", "T"}
    /\ n[3] = "N"

\* c_str() + p - 1 as a string: the characters from p up to the first NUL.
RECURSIVE CStr(_, _)
CStr(str, p) ==
    IF CharAt(str, p) = NUL THEN <<>> ELSE <<str[p]>> \o CStr(str, p + 1)

\* How a call ends: the schemes it set, in order, and what it threw.
Sets(w) == [enq |-> <<w>>, thrown |-> <<>>]
Throws(what) == [enq |-> <<>>, thrown |-> what]
Returns == [enq |-> <<>>, thrown |-> <<>>]

\* The messages of the five throws of the bm25 branch, in order.
BM25Invalid ==
    <<"Parameter k1 is invalid", "Parameter k2 is invalid", "Parameter k3 is invalid",
      "Parameter b is invalid", "Parameter min_normlen is invalid">>

\* The double_param calls of the bm25 branch from the n-th on, p being where
\* the one before stopped and vals the values stored so far: the first that
\* fails throws its message, and after the fifth the scheme is set.
RECURSIVE bm25_params(_, _, _, _)
bm25_params(scheme, p, n, vals) ==
    IF n > Len(BM25Invalid) THEN Sets(BM25Weight(vals))
    ELSE CHOOSE out \in
             {IF r.ok THEN bm25_params(scheme, r.p, n + 1, Append(vals, r.val))
                      ELSE Throws(<<BM25Invalid[n]>>) :
                  r \in {double_param(scheme, p)}} : TRUE

\* The tail of the non-forced branch: "tfidf", then "bool" or the error.
scheme_tail(scheme) ==
    IF startswith(scheme, <<"t", "f", "i", "d", "f">>) /\ CharAt(scheme, 6) = NUL
    THEN {Sets(TfIdfWeight(<<"N", "T", "N">>))}
    ELSE IF startswith(scheme, <<"t", "f", "i", "d", "f">>) /\ C_isspace(CharAt(scheme, 6))
    THEN IF TfIdfAccepts(CStr(scheme, 7))
         THEN {Sets(TfIdfWeight(CStr(scheme, 7)))}
         ELSE {Sets(TfIdfWeight(CStr(scheme, 7))), Throws(<<"InvalidArgumentError">>)}
    ELSE IF scheme # <<"b", "o", "o", "l">>
    THEN {Throws(<<"Unknown $opt{weighting} setting: ">> \o scheme)}
    ELSE {Sets(BoolWeight)}

\* The non-forced branch for a non-empty scheme.
scheme_outcomes(scheme) ==
    IF startswith(scheme, <<"b", "m", "2", "5">>) /\ CharAt(scheme, 5) = NUL
    THEN {Sets(BM25Weight(<<>>))}
    ELSE IF startswith(scheme, <<"b", "m", "2", "5">>) /\ C_isspace(CharAt(scheme, 5))
    THEN {bm25_params(scheme, 5, 1, <<>>)}
    ELSE IF /\ startswith(scheme, <<"t", "r", "a", "d">>)
            /\ (CharAt(scheme, 5) = NUL \/ C_isspace(CharAt(scheme, 5)))
    THEN LET k == double_param(scheme, 5)
         IN  {Sets(TradWeight(IF k.ok THEN k.val ELSE <<"1">>))}
    ELSE scheme_tail(scheme)

\* Mutant: an empty scheme falls through to the boolean scheme.
call_outcomes_emptybool(o, fb) ==
    IF ~fb
    THEN IF "weighting" \notin DOMAIN o THEN {Returns}
         ELSE IF o["weighting"] = <<>> THEN {Sets(BoolWeight)}
         ELSE scheme_outcomes(o["weighting"])
    ELSE {Sets(BoolWeight)}
\* Mutant: force_boolean is looked at after the option.
call_outcomes_optfirst(o, fb) ==
    IF "weighting" \notin DOMAIN o THEN (IF fb THEN {Sets(BoolWeight)} ELSE {Returns})
    ELSE IF o["weighting"] = <<>> THEN (IF fb THEN {Sets(BoolWeight)} ELSE {Returns})
    ELSE IF fb /\ o["weighting"] = <<"b", "o", "o", "l">> THEN {Sets(BoolWeight)}
    ELSE scheme_outcomes(o["weighting"])
\* The ways set_weighting_scheme(enq, o, fb) can end.
call_outcomes(o, fb) ==
    IF ~fb
    THEN IF "weighting" \notin DOMAIN o THEN {Returns}
         ELSE IF o["weighting"] = <<>> THEN {Returns}
         ELSE scheme_outcomes(o["weighting"])
    ELSE {Sets(BoolWeight)}

\* The values of $opt{weighting} tried.
SchemeSamples ==
    {<<>>,
     <<"b", "o", "o", "l">>,
     <<"b", "o", "o", "l", " ">>,
     <<"b", "o", "o", "l", "x">>,
     <<"b", "m", "2", "5">>,
     <<"b", "m", "2", "5", " ", "1", " ", "0", " ", "1", " ", "0", ".", "5", " ", "0", ".", "5">>,
     <<"b", "m", "2", "5", "\t", "1", ".", "5", " ", "-", "2", " ", "+", "3", " ", ".", "5", " ", "4", ".">>,
     <<"b", "m", "2", "5", " ", "1", " ", "0">>,
     <<"b", "m", "2", "5", " ">>,
     <<"b", "m", "2", "5", " ", "1", " ", "0", " ", "1", " ", "0", ".", "5", " ", "x">>,
     <<"b", "m", "2", "5", " ", "1", "e", "2", " ", "0", " ", "1", " ", "1", " ", "1">>,
     <<"b", "m", "2", "5", " ", "1", "e", "9", "9", "9", " ", "0", " ", "1", " ", "1", " ", "1">>,
     <<"b", "m", "2", "5", " ", "1", " ", "0", " ", "1", " ", "0", ".", "5", " ", "0", ".", "5", " ", "j", "u", "n", "k">>,
     <<"b", "m", "2", "5", " ", "i", "n", "f", " ", "0", " ", "1", " ", "1", " ", "n", "a", "n">>,
     <<"b", "m", "2", "5", "x">>,
     <<"b", "m", "2", "5", NUL, "x">>,
     <<"b", "m", "2">>,
     <<"t", "r", "a", "d">>,
     <<"t", "r", "a", "d", " ", "2">>,
     <<"t", "r", "a", "d", " ", "x">>,
     <<"t", "r", "a", "d", "x">>,
     <<"t", "r", "a", "d", "\t", ".", "5">>,
     <<"t", "f", "i", "d", "f">>,
     <<"t", "f", "i", "d", "f", " ", "N", "T", "N">>,
     <<"t", "f", "i", "d", "f", " ", "X", "Y", "Z">>,
     <<"t", "f", "i", "d", "f", " ">>,
     <<"t", "f", "i", "d", "f", "x">>,
     <<"f", "o", "o">>,
     <<NUL>>,
     <<"B", "o", "o", "l">>}

\* The option maps tried: with and without "weighting", with and without
\* another option.
OptSamples ==
    LET other == {<<>>, "decimal" :> <<",">>}
    IN  other \cup {("weighting" :> v) @@ x : v \in SchemeSamples, x \in other}

InitOmega ==
    /\ opt \in OptSamples
    /\ force_boolean \in BOOLEAN
    /\ enq = <<>>
    /\ thrown = <<>>
    /\ wpc = "call"
    /\ NoDate
    /\ fs = <<>>
    /\ published = {}
    /\ run = "fresh"
    /\ rev = 0
    /\ root = AllNoRoot
    /\ new_root = AllNoRoot
    /\ uuid = UuidOf(0)
    /\ pc = "idle"
    /\ new_rev = 0
    /\ s = <<>>
    /\ fdpos = 0
    /\ call = NoCall
    /\ err = "none"
    /\ nops = 0
    /\ used = {}
    /\ wfd = 0
    /\ rd = [rev |-> 0, root |-> AllNoRoot, new_root |-> AllNoRoot, uuid |-> UuidOf(0)]
    /\ ReaderIdle

\* set_weighting_scheme(enq, opt, force_boolean), the whole call.
set_weighting_scheme ==
    /\ wpc = "call"
    /\ \E r \in call_outcomes(opt, force_boolean) :
          /\ enq' = enq \o r.enq
          /\ thrown' = r.thrown
    /\ wpc' = "done"
    /\ UNCHANGED <<opt, force_boolean, fs, published, run, wvars, rvars, dvars>>

SpecOmega == InitOmega /\ [][set_weighting_scheme]_vars

(***************************************************************************)
(* Properties.                                                             *)
(***************************************************************************)
\* The paths of db_dir's entries that carry a canonical revision name.
CanonPaths(f) == {db_dir \o <<"/">> \o name : name \in {x \in Listing(f, db_dir) : IsRevName(x)}}

\* C1: in every state of the directory, whichever step of write the writer
\* has reached or stopped after, every file under a canonical name holds a
\* complete encoding of a published revision that read decodes without error;
\* no partially written file is visible under a canonical name.
C1_CanonicalFilesComplete ==
    \A path \in CanonPaths(fs) :
        /\ \E p \in published : fs[path].data = Encode(p.uuid, p.root)
        /\ Len(fs[path].data) >= HeaderLen
        /\ \A o \in FreshObjs : read(o, fs[path].data).err = "none"

\* C1 witness: a canonical file exists while the staging file holds only a
\* prefix of the buffer and the writer has stopped with an error.
C1_Witness ==
    /\ CanonPaths(fs) # {}
    /\ pc = "idle"
    /\ err = "DatabaseError"
    /\ TmpFileName(db_dir) \in DOMAIN fs
    /\ Len(fs[TmpFileName(db_dir)].data) = ShortWrite

\* What the reader's object reports.
ReaderView == [rev |-> rd.rev, uuid |-> rd.uuid, root |-> rd.root]

\* C2: a reader whose open_most_recent interleaves with the writer's steps,
\* and none of whose own system calls is made to fail, ends without error, and
\* its revision, uuid and roots are together those of one published revision,
\* the one whose name the scan chose (or those of the empty database if the
\* scan found no revision file).
C2_ReaderSeesOneRevision ==
    (rpc = "done" /\ rfault = "none") =>
        /\ rerr = "none"
        /\ IF newest = <<>>
           THEN rd.rev = 0 /\ rd.root = AllNoRoot
           ELSE ReaderView \in published /\ rd.rev = strtoul16(newest)

\* C2 witness: the reader finished with the earlier revision after the
\* writer's in-flight write had already published a later one.
C2_Witness ==
    /\ rpc = "done"
    /\ newest # <<>>
    /\ ReaderView \in published
    /\ \E p \in published : p.rev > rd.rev
    /\ pc \in {"renamed", "idle"}

\* C3: after create and then only successful writes with strictly increasing
\* revisions, the scan selects, in whatever order the entries are listed, the
\* name of the highest revision written, and reading it raises no error.
C3_ScanSelectsHighest ==
    (pc = "idle" /\ run = "ok") =>
        \A order \in Orderings(Listing(fs, db_dir)) :
            /\ ScanLoop(order, <<>>) = sprintf08x(rev)
            /\ \A p \in published : p.rev <= rev
            /\ \A o \in FreshObjs : open_most_recent(o, fs, db_dir, order).err = "none"

\* C3 witness: create and two writes with increasing revisions have succeeded.
C3_Witness ==
    /\ pc = "idle"
    /\ run = "ok"
    /\ rev = 2
    /\ Cardinality(CanonPaths(fs)) = 3

\* What a newly constructed object reports after open_most_recent, for every
\* order of the listing, equals the writer's revision, uuid and committed roots.
FreshOpenMatchesWriter ==
    \A o \in FreshObjs : \A order \in Orderings(Listing(fs, db_dir)) :
        LET r == open_most_recent(o, fs, db_dir, order) IN
        /\ r.err = "none"
        /\ r.obj.rev = rev
        /\ r.obj.uuid = uuid
        /\ r.obj.root = root

\* C4: after any sequence of create, staged-root mutations and writes
\* (successful or failed) that has published a revision, a fresh
\* open_most_recent reports the writer's revision, uuid and committed roots.
C4_FreshOpenMatchesWriter ==
    (pc = "idle" /\ published # {}) => FreshOpenMatchesWriter

\* The step is a call of write(db_dir, n).
IsWriteCall(n) ==
    /\ pc = "idle"
    /\ nops' = nops + 1
    /\ call' = [op |-> "write", n |-> n]

C6_LowerRevisionNoEffect ==
    [][\A n \in 0..MaxRev :
        (IsWriteCall(n) /\ n < rev)
        => (/\ err' = "DatabaseError"
            /\ pc' = "idle"
            /\ fs' = fs
            /\ <<rev, root, new_root, uuid>>' = <<rev, root, new_root, uuid>>)]_vars

\* C6 witness: the rejected call found a staging file left by a failed write,
\* which it did not truncate.
C6_Witness ==
    /\ pc = "idle"
    /\ call.op = "write"
    /\ call.n < rev
    /\ err = "DatabaseError"
    /\ TmpFileName(db_dir) \in DOMAIN fs
    /\ fs[TmpFileName(db_dir)].data # <<>>

\* C7: a file published under a canonical name keeps its contents in every
\* later step.
C7_PublishedFilesImmutable ==
    [][\A path \in CanonPaths(fs) :
        path \in DOMAIN fs' /\ fs'[path].data = fs[path].data]_vars

\* The highest revision among the canonical files, -1 when there is none.
MaxCanon(f) ==
    IF CanonPaths(f) = {} THEN -1
    ELSE LET revs == {strtoul16(Drop(path, Len(db_dir) + 2)) : path \in CanonPaths(f)}
         IN CHOOSE m \in revs : \A x \in revs : x <= m

\* C8: over create and write calls, successful or failed, neither the
\* in-memory revision nor the highest published revision ever decreases.
C8_RevisionsNeverDecrease ==
    [][rev' >= rev /\ MaxCanon(fs') >= MaxCanon(fs)]_vars

\* C8 witness: the revision has advanced and a later call has failed.
C8_Witness ==
    /\ rev > 0
    /\ MaxCanon(fs) = rev
    /\ pc = "idle"
    /\ err \in {"DatabaseError", "DatabaseOpeningError"}

\* The highest table index with a root, -1 when no table has one.
HighestRoot(nr) == TableLast(nr, MAX_) - 1

\* C9: decoding what write encodes gives back the uuid and every root up to
\* the highest table K that has one, interior NO_ROOT entries included, and
\* NO_ROOT for every table above K.
C9_CodecRoundTrip ==
    pc = "decoded" =>
        LET K == HighestRoot(new_root) IN
        /\ rerr = "none"
        /\ rd.uuid = uuid
        /\ \A t \in Tables : t <= K => rd.root[t] = new_root[t]
        /\ \A t \in Tables : t > K => rd.root[t] = NO_ROOT

\* C9 witness: decoded roots with a NO_ROOT below the highest root and a
\* trimmed table above it, into an object whose roots held something else.
C9_Witness ==
    /\ pc = "decoded"
    /\ new_root[0] = NO_ROOT
    /\ new_root[1] = 16384
    /\ new_root[MAX_ - 1] = NO_ROOT
    /\ rd.root = new_root
    /\ Len(s) = HeaderLen + Len(pack_uint(NO_ROOT)) + 3

\* The 32 byte header write emits for uuid u.
Header(u) ==
    BRASS_VERSION_MAGIC
        \o <<(BRASS_FORMAT_VERSION \div 256) % 256, BRASS_FORMAT_VERSION % 256>>
        \o u

\* C10: after a successful create, whatever the revision was before, the
\* current revision is 0 and v00000000 holds exactly the header.
C10_CreateAtRevisionZero ==
    (pc = "idle" /\ call.op = "create" /\ err = "ok") =>
        /\ rev = 0
        /\ RevFileName(db_dir, 0) \in DOMAIN fs
        /\ fs[RevFileName(db_dir, 0)].data = Header(uuid)

\* The entries write emits for tables 0..K.
RECURSIVE RootEntries(_, _)
RootEntries(nr, K) ==
    IF K < 0 THEN <<>> ELSE RootEntries(nr, K - 1) \o pack_uint(nr[K])

\* C11: after a successful write(dir, n) the current revision is n, the
\* committed roots are the staged roots of the call, and the file v%08x(n)
\* holds the header with the object's uuid followed by the entries of tables
\* 0..K and nothing else, K being the highest table with a staged root.
C11_WriteCommitsAndPublishes ==
    (pc = "idle" /\ call.op = "write" /\ err = "ok") =>
        LET WithRoot == {t \in Tables : new_root[t] # NO_ROOT}
            K == IF WithRoot = {} THEN -1
                 ELSE CHOOSE k \in WithRoot : \A t \in WithRoot : t <= k
            path == db_dir \o <<"/", "v">> \o sprintf08x(call.n)
        IN /\ rev = call.n
           /\ root = new_root
           /\ path \in DOMAIN fs
           /\ fs[path].data = Header(uuid) \o RootEntries(new_root, K)
           /\ Len(fs[path].data) = HeaderLen + Len(RootEntries(new_root, K))
           /\ Len(Header(uuid)) = HeaderLen

\* C11 witness: revision 1 written with a root for table 1 only, so that
\* table 0 has a NO_ROOT entry and the last table has none.
C11_Witness ==
    /\ pc = "idle"
    /\ call = [op |-> "write", n |-> 1]
    /\ err = "ok"
    /\ new_root[0] = NO_ROOT
    /\ new_root[1] = 42
    /\ new_root[MAX_ - 1] = NO_ROOT
    /\ fs[RevFileName(db_dir, 1)].data =
          Header(uuid) \o pack_uint(NO_ROOT) \o pack_uint(42)

\* The errors write throws.
WriteErrors == {"DatabaseError", "DatabaseOpeningError"}

\* The canonical files of the directory with their contents.
CanonFiles(f) == [path \in CanonPaths(f) |-> f[path]]

\* C12: the revision and the committed roots change only in the commit of a
\* successful write; staging a root leaves the committed roots alone; no step
\* of a write before its commit changes the revision, the committed roots,
\* the staged roots or the uuid, and a write that throws at any step has
\* created or altered no canonical file.
C12_WriteFrame ==
    [][/\ (<<rev, root>>' # <<rev, root>>)
              => (/\ pc = "renamed" /\ err' = "ok"
                  /\ rev' = new_rev /\ root' = new_root)
       /\ (call'.op = "set_root" /\ nops' = nops + 1)
              => <<rev, root>>' = <<rev, root>>
       /\ (call'.op = "write" /\ pc # "renamed")
              => <<rev, root, new_root, uuid>>' = <<rev, root, new_root, uuid>>
       /\ (call'.op = "write" /\ pc' # "renamed")
              => CanonFiles(fs') = CanonFiles(fs)]_vars

\* C12 witness: a write that passed the revision check has thrown and removed
\* its staging file, with staged roots that differ from the committed ones
\* and a published revision in the directory.
C12_Witness ==
    /\ pc = "idle"
    /\ call.op = "write"
    /\ call.n > rev
    /\ err = "DatabaseOpeningError"
    /\ new_root # root
    /\ CanonPaths(fs) # {}
    /\ RevFileName(db_dir, call.n) \notin DOMAIN fs
    /\ TmpFileName(db_dir) \notin DOMAIN fs

\* C13: when write throws after it has created the staging file (from the
\* buffer write, the sync, the close or the rename), the staging file does
\* not exist any more.
C13_TmpRemovedOnFailure ==
    [][(/\ pc \in {"opened", "written", "synced", "closed"}
        /\ pc' = "idle"
        /\ err' \in WriteErrors)
       => TmpFileName(db_dir) \notin DOMAIN fs']_vars

\* C14: every file write creates is directly inside the database directory:
\* its path is the directory, a slash and a name without a slash, and while
\* a write is in flight its staging file is <dir>/v.tmp.
C14_FilesInsideDirectory ==
    /\ \A path \in DOMAIN fs :
          /\ Len(path) > Len(db_dir) + 1
          /\ Take(path, Len(db_dir) + 1) = db_dir \o <<"/">>
          /\ \A i \in (Len(db_dir) + 2)..Len(path) : path[i] # "/"
    /\ pc \in {"opened", "written", "synced", "closed"}
          => db_dir \o <<"/", "v", ".", "t", "m", "p">> \in DOMAIN fs

\* The uuid field of a revision file.
FileUuid(data) == SubSeq(data, BRASS_VERSION_MAGIC_LEN + 3, HeaderLen)

\* C16: no step of write changes the uuid in memory, and after any sequence
\* of operations any two canonical files of the directory carry the same
\* uuid.
C16_OneUuidPerDirectory ==
    [][/\ call'.op = "write" => uuid' = uuid
       /\ \A p, q \in CanonPaths(fs') :
             FileUuid(fs'[p].data) = FileUuid(fs'[q].data)]_vars

\* C15: write and open_most_recent (with the read it calls) each hold at most
\* one descriptor or directory handle at any moment, and hold none once they
\* have returned or thrown.
C15_DescriptorsReleased ==
    /\ wfd \in {0, 1}
    /\ rfd \in {0, 1}
    /\ pc = "idle" => wfd = 0
    /\ rpc \in {"idle", "done"} => rfd = 0

\* C15 witness: write has thrown from the buffer write and open_most_recent
\* from readdir.
C15_Witness ==
    /\ pc = "idle"
    /\ call.op = "write"
    /\ call.n >= rev
    /\ err = "DatabaseError"
    /\ TmpFileName(db_dir) \in DOMAIN fs
    /\ rpc = "done"
    /\ rfault = "readdir"
    /\ wfd = 0
    /\ rfd = 0

\* The lower case hexadecimal digits.
LcHexChars ==
    {"0", "1", "2", "3", "4", "5", "6", "7", "8", "9", "a", "b", "c", "d", "e", "f"}

\* The names of the form v + 8 lower case hexadecimal digits.
Accepted(names) ==
    {name \in names : /\ Len(name) = 9
                      /\ name[1] = "v"
                      /\ \A i \in 2..9 : name[i] \in LcHexChars}

\* The suffix of the accepted name whose number is greatest, <<>> if none.
GreatestAccepted(names) ==
    IF Accepted(names) = {} THEN <<>>
    ELSE LET best == CHOOSE a \in Accepted(names) : \A b \in Accepted(names) :
                         strtoul16(Drop(b, 1)) <= strtoul16(Drop(a, 1))
         IN Drop(best, 1)

\* C17: whatever the entries of the directory and the order readdir returns
\* them in, the scan ends with the suffix of the numerically greatest name
\* of the form v + 8 lower case hex digits, every other name being ignored.
C17_ScannerSelection ==
    [][(rpc = "diropen" /\ rfault' = "none")
       => newest' = GreatestAccepted(Listing(fs, db_dir))]_vars

\* C17 witness: v0000000a chosen in a directory that also holds v00000001
\* and a name with 9 digits.
C17_Witness ==
    /\ rpc = "scanned"
    /\ newest = sprintf08x(10)
    /\ Listing(fs, db_dir) =
          {<<"v">> \o sprintf08x(1), <<"v">> \o sprintf08x(10),
           <<"v", "1", "2", "3", "4", "5", "6", "7", "8", "9">>}

\* C18: when no entry of the directory is a revision name, open_most_recent
\* returns normally from the scan, without opening a file, with rev 0 and
\* every committed root NO_ROOT; the uuid (and the staged roots) stay as they
\* were.
C18_EmptyDatabase ==
    [][(rpc = "diropen" /\ rfault' = "none" /\ Accepted(Listing(fs, db_dir)) = {})
       => (/\ rpc' = "done"
           /\ rerr' = "none"
           /\ rfd' = 0
           /\ rfile' = rfile
           /\ rd'.rev = 0
           /\ rd'.root = AllNoRoot
           /\ rd'.uuid = rd.uuid
           /\ rd'.new_root = rd.new_root)]_vars

\* C18 witness: an object that held revision 2 has opened a directory with
\* entries none of which is a revision name.
C18_Witness ==
    /\ rpc = "done"
    /\ rerr = "none"
    /\ Cardinality(Listing(fs, db_dir)) = MaxEntries
    /\ newest = <<>>
    /\ rd.rev = 0
    /\ rd.root = AllNoRoot
    /\ rd.uuid = UuidOf(1)

\* C19: when opendir or readdir fails, open_most_recent throws
\* DatabaseOpeningError.
C19_ListFailureIsOpeningError ==
    (rpc = "done" /\ rfault \in {"opendir", "readdir"})
        => rerr = "DatabaseOpeningError"

\* The version field of a file.
FileVersion(data) ==
    data[BRASS_VERSION_MAGIC_LEN + 1] * 256 + data[BRASS_VERSION_MAGIC_LEN + 2]

\* C20: read of a file with the magic and a version field other than
\* BRASS_FORMAT_VERSION throws DatabaseVersionError, and the date decoded from
\* the file's version is 8 digits that differ from the date decoded from the
\* expected version.
C20_VersionMismatch ==
    (/\ rpc = "done"
     /\ Len(rfile) >= HeaderLen
     /\ Take(rfile, BRASS_VERSION_MAGIC_LEN) = BRASS_VERSION_MAGIC
     /\ FileVersion(rfile) # BRASS_FORMAT_VERSION)
    => (/\ rerr = "DatabaseVersionError"
        /\ Len(rmsg) = 2
        /\ Len(rmsg[1]) = 8
        /\ Len(rmsg[2]) = 8
        /\ rmsg[1] # rmsg[2])

\* C20 witness: the greatest version, 2186-03-02, against 2010-02-23.
C20_Witness ==
    /\ rpc = "done"
    /\ FileVersion(rfile) = 2^16 - 1
    /\ rerr = "DatabaseVersionError"
    /\ rmsg = << <<"2", "1", "8", "6", "0", "3", "0", "2">>,
                 <<"2", "0", "1", "0", "0", "2", "2", "3">> >>

\* rfile is a header followed by the entries of vals.
HoldsEntries(data, vals) ==
    /\ Len(data) >= HeaderLen
    /\ Take(data, HeaderLen) = Header(FileUuid(data))
    /\ Drop(data, HeaderLen) = EntriesOf(vals)

\* C21: read of a file that holds a well-formed header, an entry for each of
\* the MAX_ tables and at least one more byte throws DatabaseCorruptError.
C21_JunkAtEnd ==
    (/\ rpc = "done"
     /\ \E vals \in [1..MAX_ -> CodecRootVals] :
           LET pre == Header(UuidOf(1)) \o EntriesOf(vals) IN
           Len(rfile) > Len(pre) /\ Take(rfile, Len(pre)) = pre)
    => rerr = "DatabaseCorruptError"

\* C21 witness: one byte after three entries, each of them read into the
\* object before the error.
C21_Witness ==
    /\ rpc = "done"
    /\ rfile = Header(UuidOf(1)) \o EntriesOf([i \in 1..MAX_ |-> 42]) \o <<0>>
    /\ rerr = "DatabaseCorruptError"
    /\ rd.root = [t \in Tables |-> 42]

C23_FewerEntries ==
    rpc = "done" =>
        \A k \in 0..MAX_ : \A vals \in [1..k -> CodecRootVals] :
            HoldsEntries(rfile, vals) =>
                /\ rerr = "none"
                /\ rd.uuid = FileUuid(rfile)
                /\ \A t \in Tables : rd.root[t] = IF t < k THEN vals[t + 1] ELSE NO_ROOT

\* C23 witness: one entry read into an object whose roots all held 42.
C23_Witness ==
    /\ rpc = "done"
    /\ rerr = "none"
    /\ rfile = Header(UuidOf(1)) \o pack_uint(16384)
    /\ rd.root = [t \in Tables |-> IF t = 0 THEN 16384 ELSE NO_ROOT]
    /\ rd.uuid = UuidOf(1)

\* C26: read of a file of at least 32 bytes whose first 14 bytes are not the
\* magic throws DatabaseCorruptError whatever the version field holds, and a
\* read that stops at the magic or at the version leaves the uuid and the
\* committed roots (the whole object) as they were.
C26_MagicBeforeVersion ==
    [][(rpc = "fileopen" /\ Len(rfile) >= HeaderLen)
       => /\ (Take(rfile, BRASS_VERSION_MAGIC_LEN) # BRASS_VERSION_MAGIC)
                => (rerr' = "DatabaseCorruptError" /\ rd' = rd)
          /\ (/\ Take(rfile, BRASS_VERSION_MAGIC_LEN) = BRASS_VERSION_MAGIC
              /\ FileVersion(rfile) # BRASS_FORMAT_VERSION)
                => (rerr' = "DatabaseVersionError" /\ rd' = rd)]_vars

\* C26 witness: a file with a damaged magic and a foreign version has been
\* rejected as corrupt, the object still holding a uuid and roots that are
\* not the file's.
C26_Witness ==
    /\ rpc = "done"
    /\ Len(rfile) >= HeaderLen
    /\ Take(rfile, BRASS_VERSION_MAGIC_LEN) # BRASS_VERSION_MAGIC
    /\ FileVersion(rfile) = 2^16 - 1
    /\ rerr = "DatabaseCorruptError"
    /\ rd.uuid = UuidOf(0)
    /\ rd.root = [t \in Tables |-> 42]

\* C25: within a write the rename is attempted only when the staging file
\* holds the whole buffer, synced, and its descriptor is closed; rev and the
\* committed roots are assigned only when the canonical file of the new
\* revision exists with those synced contents; so when write has returned
\* normally the canonical file of the current revision exists and is synced.
C25_WriteStepOrder ==
    [][/\ pc = "closed"
             => (/\ TmpFileName(db_dir) \in DOMAIN fs
                 /\ fs[TmpFileName(db_dir)].data = s
                 /\ fs[TmpFileName(db_dir)].synced
                 /\ fdpos = Len(s)
                 /\ wfd = 0)
       /\ (<<rev, root>>' # <<rev, root>> \/ pc = "renamed")
             => (/\ RevFileName(db_dir, new_rev) \in DOMAIN fs
                 /\ fs[RevFileName(db_dir, new_rev)].data = s
                 /\ fs[RevFileName(db_dir, new_rev)].synced)
       /\ (pc' = "idle" /\ err' = "ok" /\ call'.op \in {"write", "create"})
             => (/\ rev' = call'.n
                 /\ RevFileName(db_dir, rev') \in DOMAIN fs'
                 /\ fs'[RevFileName(db_dir, rev')].synced)]_vars

\* C25 witness: the rename has succeeded and the commit has not been made:
\* the canonical file of the new revision holds the synced buffer, which
\* took more than one write(2), while rev is still the old revision.
C25_Witness ==
    /\ pc = "renamed"
    /\ rev < new_rev
    /\ Len(s) > ShortWrite
    /\ RevFileName(db_dir, new_rev) \in DOMAIN fs
    /\ fs[RevFileName(db_dir, new_rev)] = [data |-> s, synced |-> TRUE]
    /\ TmpFileName(db_dir) \notin DOMAIN fs

\* C27: the canonical name write generates for a revision n it publishes is
\* one the scanner accepts, its suffix parses as hexadecimal to n, and a
\* reader that finds it ends up with rev = n.
C27_FilenameRoundTrip ==
    /\ \A p \in published :
          LET name == <<"v">> \o sprintf08x(p.rev) IN
          /\ db_dir \o <<"/">> \o name \in DOMAIN fs
          /\ Len(name) = 9
          /\ IsRevName(name)
          /\ name \in Accepted(Listing(fs, db_dir))
          /\ strtoul16(Drop(name, 1)) = p.rev
          /\ \A order \in Orderings(Listing(fs, db_dir)) :
                ScanLoop(order, <<>>) = Drop(name, 1)
    /\ (rpc \in {"fileopen", "done"} /\ rfault = "none" /\ newest # <<>>)
          => (/\ [rev |-> rd.rev, uuid |-> uuid, root |-> new_root] \in published
              /\ rd.rev = call.n)

\* C27 witness: revision 7fffffff written, found and parsed.
C27_Witness ==
    /\ rpc = "done"
    /\ rerr = "none"
    /\ newest = <<"7", "f", "f", "f", "f", "f", "f", "f">>
    /\ call.n = GreatestRev
    /\ rd.rev = GreatestRev

\* C28: after open_most_recent has loaded a revision the staged roots equal
\* the committed roots, and the write called next, with no staged root
\* changed in between, encodes the committed roots that were loaded.
C28_StagedEqualCommittedAfterOpen ==
    [][/\ (call'.op = "open_most_recent" /\ err' = "ok" /\ CanonPaths(fs') # {})
             => new_root' = root'
       /\ (/\ call.op = "open_most_recent" /\ err = "ok" /\ CanonPaths(fs) # {}
           /\ call'.op = "write" /\ pc' = "opened")
             => s' = Encode(uuid, root)]_vars

\* C29: when open_most_recent throws because the selected file cannot be
\* opened or read throws, the object's rev, uuid and committed roots are
\* what they were when it was called.
C29_FailedOpenLeavesState ==
    (rpc = "done" /\ rerr # "none" /\ rfault \notin {"opendir", "readdir"})
        => (/\ rd.rev = rd0.rev
            /\ rd.uuid = rd0.uuid
            /\ rd.root = rd0.root)

\* C24: the version computed from a date is strictly increasing in calendar
\* order over months 1..12 and days 1..31 (it is 0 for 2010-01-01, grows by
\* exactly one from each date to the next, and orders every date against
\* the anchors as the calendar does); the three decoders give the date back;
\* and it fits in 16 bits, surviving the two header bytes, exactly for the
\* dates up to 2186-03-02, which encodes to 65535.
LastDate16 == [Y |-> 2186, M |-> 3, D |-> 2]
AnchorDates ==
    {[Y |-> FirstYear, M |-> 1, D |-> 1], [Y |-> 2010, M |-> 2, D |-> 23],
     [Y |-> 2010, M |-> 12, D |-> 31], [Y |-> 2100, M |-> 6, D |-> 15],
     LastDate16, NextDate(LastDate16), [Y |-> LastYear, M |-> 12, D |-> 31]}
C24_DateEncoding ==
    /\ version # -1 =>
          /\ version >= 0
          /\ (version = 0) <=> (date = [Y |-> FirstYear, M |-> 1, D |-> 1])
          /\ DATE_TO_VERSION(NextDate(date).Y, NextDate(date).M, NextDate(date).D)
                 = version + 1
          /\ \A e \in AnchorDates :
                /\ DateLess(date, e) <=> version < DATE_TO_VERSION(e.Y, e.M, e.D)
                /\ DateLess(e, date) <=> DATE_TO_VERSION(e.Y, e.M, e.D) < version
          /\ (version < 2^16) <=> (date = LastDate16 \/ DateLess(date, LastDate16))
          /\ (HeaderVersion(HeaderBytes(version)) = version)
                 <=> (date = LastDate16 \/ DateLess(date, LastDate16))
          /\ (date = LastDate16) => version = 2^16 - 1
    /\ decoded # <<>> => decoded = date

\* 2186-03-02 encoded to 65535 and decoded back.
C24_Witness ==
    /\ date = LastDate16
    /\ version = 2^16 - 1
    /\ decoded = LastDate16

\* C30: a call with force_boolean true sets the boolean scheme, and only
\* it, and throws nothing, whatever the option map holds; a call with
\* force_boolean false and "weighting" absent or empty sets no scheme (and
\* throws nothing).
C30_ForcedBooleanAndAbsent ==
    wpc = "done" =>
        /\ force_boolean => (enq = <<BoolWeight>> /\ thrown = <<>>)
        /\ (~force_boolean /\ "weighting" \notin DOMAIN opt) =>
               (enq = <<>> /\ thrown = <<>>)
        /\ (~force_boolean /\ "weighting" \in DOMAIN opt /\ opt["weighting"] = <<>>) =>
               (enq = <<>> /\ thrown = <<>>)

\* A forced call on an option map whose scheme would otherwise throw.
C30_Witness ==
    /\ wpc = "done"
    /\ force_boolean
    /\ "weighting" \in DOMAIN opt
    /\ opt["weighting"] = <<"b", "m", "2", "5", "x">>
    /\ enq = <<BoolWeight>>

\* The std::string str is pfx followed by its end or by white space.
EndOrSpaceAfter(str, pfx) ==
    /\ startswith(str, pfx)
    /\ (Len(str) = Len(pfx) \/ C_isspace(str[Len(pfx) + 1]))

\* str is "bool", or "bm25", "trad" or "tfidf" followed by its end or by
\* white space.
KnownSetting(str) ==
    \/ str = <<"b", "o", "o", "l">>
    \/ EndOrSpaceAfter(str, <<"b", "m", "2", "5">>)
    \/ EndOrSpaceAfter(str, <<"t", "r", "a", "d">>)
    \/ EndOrSpaceAfter(str, <<"t", "f", "i", "d", "f">>)

\* The number of double_param calls, of at most n, that succeed in a row
\* from position p of str.
RECURSIVE ParamsParsed(_, _, _)
ParamsParsed(str, p, n) ==
    IF n = 0 THEN 0
    ELSE CHOOSE c \in {IF r.ok THEN 1 + ParamsParsed(str, r.p, n - 1) ELSE 0 :
                           r \in {double_param(str, p)}} : TRUE

\* C31: a call with force_boolean false and a non-empty "weighting" value
\* ends either with exactly one scheme set and nothing thrown, or with an
\* error thrown and no scheme set; a value that is neither "bool" nor one of
\* "bm25", "trad", "tfidf" followed by the end of the string or white space
\* throws the unknown-setting error; and "bm25" followed by white space
\* throws unless all five parameters parse.
C31_OneOutcomeUnknownSetting ==
    (/\ wpc = "done"
     /\ ~force_boolean
     /\ "weighting" \in DOMAIN opt
     /\ opt["weighting"] # <<>>)
    => /\ \/ Len(enq) = 1 /\ thrown = <<>>
          \/ enq = <<>> /\ thrown # <<>>
       /\ ~KnownSetting(opt["weighting"]) =>
              /\ enq = <<>>
              /\ thrown = <<"Unknown $opt{weighting} setting: ">> \o opt["weighting"]
       /\ (/\ startswith(opt["weighting"], <<"b", "m", "2", "5">>)
           /\ C_isspace(CharAt(opt["weighting"], 5))
           /\ ParamsParsed(opt["weighting"], 5, 5) < 5) => thrown # <<>>

====
